---- MODULE Spec2Model ----
(***************************************************************************)
(* Model of clusterServer.ts: a set of ClusterNode instances, each with    *)
(* its roster (peers), its peer client pool (clients), its gRPC server,    *)
(* the start() bootstrap sequence and the Join / Ping / Broadcast          *)
(* handlers.  JavaScript Maps are modelled as sequences of key/value       *)
(* entries in insertion order, which is the order Map iteration follows.   *)
(***************************************************************************)
EXTENDS Naturals, Sequences, FiniteSets

\* ---- bounds -------------------------------------------------------------
NumNodes == 3      \* ClusterNode instances
MaxCalls == 3      \* Join, Ping, Broadcast and stop requests made of the nodes, plus seeds
MaxSeeds == 2      \* length of a bootstrapPeers list
MaxInFlight == 2   \* Broadcast calls one node handles at the same time

Node == 1..NumNodes
\* The Broadcast calls in flight on one node, each with its own handler state.
Slot == 1..MaxInFlight

\* ---- identities and addresses ---------------------------------------------
\* `${host}:${port}` of node n; every node listens on its own address.
Address(n) == <<"host", n>>
\* An address nothing listens on (a stale or mistyped host:port).
DeadAddress == <<"host", 0>>
Addresses == {Address(n) : n \in Node} \cup {DeadAddress}
\* An address where calls are accepted and never answered (a peer whose
\* process is stuck): without a deadline the call stays pending.
HungAddress == <<"hung", 0>>

NodeInfo(i, a) == [id |-> i, address |-> a]
\* this.id / this.address of node n
Self(n) == NodeInfo(n, Address(n))

\* The { me } of a Join request: the id of some node, with either its real
\* address or an address nothing listens on.
CallerInfos == {NodeInfo(i, a) : i \in Node, a \in Addresses} \cap
               {me \in [id : Node, address : Addresses] :
                  me.address \in {Address(me.id), DeadAddress}}

\* A request that lacks me.id or me.address: the proto loader (defaults: true)
\* hands the handler the empty string for the missing field.
EmptyId == 0
EmptyAddress == <<>>
MalformedInfos == {NodeInfo(EmptyId, Address(i)) : i \in Node} \cup
                  {NodeInfo(i, EmptyAddress) : i \in Node}

\* The requests of an environment with faults: callers giving their real
\* address, callers whose address swallows calls, and malformed requests.
FaultInfos == {Self(i) : i \in Node} \cup {NodeInfo(i, HungAddress) : i \in Node}
                \cup MalformedInfos

\* ---- JavaScript Map ---------------------------------------------------------
MapKeys(m) == {m[i].key : i \in DOMAIN m}
MapHas(m, k) == \E i \in DOMAIN m : m[i].key = k
MapIndex(m, k) == CHOOSE i \in DOMAIN m : m[i].key = k
\* Map.prototype.set: an existing key keeps its position, a new key is appended.
MapSet(m, k, v) ==
  IF MapHas(m, k)
    THEN [m EXCEPT ![MapIndex(m, k)] = [key |-> k, value |-> v]]
    ELSE Append(m, [key |-> k, value |-> v])
\* Array.from(map.values())
MapValues(m) == [i \in DOMAIN m |-> m[i].value]

VARIABLES
  peers,      \* peers[n]: roster Map id -> NodeInfo
  clients,    \* clients[n]: Map id -> client handle (its target address)
  server,     \* server[n]: state of the grpc.Server of node n
  startCall,  \* startCall[n]: the start() invocation of node n
  bcast,      \* bcast[n][k]: the k-th Broadcast call node n is handling
  reply,      \* the reply sent through cb(...) by the step just taken, if any
  joined,     \* joined[n]: ids whose Join node n has handled (its "... joined" log)
  calls       \* number of calls issued so far

vars == <<peers, clients, server, startCall, bcast, reply, joined, calls>>

\* ---- handlers ----------------------------------------------------------------
\* Mutant: the roster kept as an array, every Join pushes an entry.
JoinPeers_Push(p, me) == Append(p, [key |-> me.id, value |-> me])

\* Mutant: the roster holds the last caller only.
JoinPeers_Replace(p, me) == <<[key |-> me.id, value |-> me]>>

\* Mutant: a known id keeps its first entry, the roster is not updated.
JoinPeers_KeepFirst(p, me) == IF MapHas(p, me.id) THEN p ELSE MapSet(p, me.id, me)

\* Mutant: the caller is not put in the roster.
JoinPeers_Skip(p, me) == p

\* Join: this.peers.set(me.id, me)
JoinPeers(p, me) == MapSet(p, me.id, me)

\* connectToPeer(peer): no client for ourselves, otherwise clients.set(id, client).
\* Every `new proto.cluster.Cluster(...)` is a new object: stamp tells the
\* handles of one node apart (the pool never shrinks, so Len(c) + 1 is fresh).
connectToPeer(self, c, peer) ==
  IF peer.id = self THEN c
  ELSE MapSet(c, peer.id, [target |-> peer.address, stamp |-> Len(c) + 1])

\* Mutant: no has() test, every Join opens a new client.
JoinClients_Always(self, c, me) == connectToPeer(self, c, me)

\* Mutant: the has() test inverted, a new peer gets no client.
JoinClients_Inverted(self, c, me) ==
  IF MapHas(c, me.id) THEN connectToPeer(self, c, me) ELSE c

\* Join: if (!this.clients.has(me.id)) this.connectToPeer(me)
JoinClients(self, c, me) ==
  IF ~MapHas(c, me.id) THEN connectToPeer(self, c, me) ELSE c

\* Mutant: our own identity put first (unshift) instead of last (push).
JoinResponse_OwnFirst(self, p) == <<Self(self)>> \o MapValues(p)

\* Join: Array.from(this.peers.values()) with { id: this.id, address } pushed
JoinResponse(self, p) == Append(MapValues(p), Self(self))

\* Mutant: the merge opens the clients and leaves the roster alone.
MergePeers_None(p, res) == p

\* Mutant: the roster is replaced by the seed's response instead of merged.
MergePeers_Overwrite(p, res) == [i \in DOMAIN res |-> [key |-> res[i].id, value |-> res[i]]]

\* joinPeer: for (const p of peers) { this.peers.set(p.id, p); ... }
RECURSIVE MergePeers(_, _)
MergePeers(p, res) ==
  IF res = <<>> THEN p
  ELSE MergePeers(MapSet(p, Head(res).id, Head(res)), Tail(res))

\* joinPeer: ... if (!this.clients.has(p.id)) this.connectToPeer(p)
RECURSIVE MergeClients(_, _, _)
MergeClients(self, c, res) ==
  IF res = <<>> THEN c
  ELSE MergeClients(self, JoinClients(self, c, Head(res)), Tail(res))

\* Mutant: the `continue` is missing, nobody is skipped.
Excluded_Never(peerId, from) == FALSE

\* Broadcast: if (peerId === from) continue
Excluded(peerId, from) == peerId = from

\* The Map iterator of `for (const [peerId, client] of this.clients)`: the next
\* entry after position pos that is not skipped, 0 when the iterator is done.
\* The iterator reads the live Map, so c is the pool as it stands at this step.
NextTarget(c, from, pos) ==
  LET rest == {i \in DOMAIN c : i > pos /\ ~Excluded(c[i].key, from)}
  IN IF rest = {} THEN 0 ELSE CHOOSE i \in rest : \A j \in rest : i <= j

\* Mutant: the originator's id is forwarded to the peers.
PingRequest_Forward(self, from) == [from |-> from]

\* Broadcast: the request of the fan-out Ping, { from: this.id }
PingRequest(self, from) == [from |-> self]

\* Mutant: the two ids of the template swapped.
PingAck_Swapped(self, from) == <<"ack from", from, "to", self>>

\* Ping: `ack from ${this.id} to ${call.request.from}`
PingAck(self, from) == <<"ack from", self, "to", from>>

\* ---- replies: cb(err, value) ---------------------------------------------------
\* by: the replying node; call: the handler's local state when it replied.
\* sent: the Ping requests issued so far
IdleBcast == [pc |-> "idle", from |-> 0, pos |-> 0, delivered |-> 0,
              size0 |-> 0, pinged |-> {}, acked |-> {}, sent |-> {}]
NoReply == [op |-> "none", by |-> 0, status |-> "OK", req |-> <<>>, peers |-> <<>>,
            delivered |-> 0, ack |-> <<>>, call |-> IdleBcast]
\* Join: cb(null, { peers })
JoinReply(n, me, res) == [NoReply EXCEPT !.op = "Join", !.by = n, !.req = me, !.peers = res]
\* Ping: cb(null, { ack })
PingReply(n, from, a) == [NoReply EXCEPT !.op = "Ping", !.by = n, !.req = from, !.ack = a]
\* Broadcast: cb(null, { delivered })
BroadcastReply(n, b) ==
  [NoReply EXCEPT !.op = "Broadcast", !.by = n, !.req = b.from,
                  !.delivered = b.delivered, !.call = b]

\* ---- transport ----------------------------------------------------------------
\* Mutant: a server busy with a Broadcast does not take another call.
Listener_Busy(a) ==
  {m \in Node : /\ Address(m) = a
                /\ server[m] = "started"
                /\ \A k \in Slot : bcast[m][k].pc = "idle"}

\* A call to address a reaches a handler iff a started server listens there.
Listener(a) == {m \in Node : Address(m) = a /\ server[m] = "started"}

\* Some server answers at a.
Serving(a) == Listener(a) # {}

\* The call fails (UNAVAILABLE): nothing serves a, and a is not an address
\* that swallows calls.  unary() sets no deadline, so nothing else ends a call.
Refused(a) == ~Serving(a) /\ a # HungAddress

\* Mutant: one call at a time, nothing is accepted while a Broadcast awaits.
Accepts_Serialized(n) ==
  server[n] = "started" /\ \A k \in Slot : bcast[n][k].pc = "idle"

\* The server of node n dispatches an inbound call to its handler: it has
\* been started and not asked to shut down.  Handlers run on the event loop,
\* a handler suspended at an await does not hold it.
Accepts(n) == server[n] = "started"

\* ---- state --------------------------------------------------------------------
\* failed: how many bootstrap Joins ended in the catch of start();
\* bindErr: bindAsync called back with an error
IdleStart == [pc |-> "idle", seeds |-> <<>>, idx |-> 0, res |-> <<>>, failed |-> 0,
              bindErr |-> FALSE]
SeedLists == UNION {[1..k -> Addresses] : k \in 0..MaxSeeds}
\* Seed lists of the environment with faults: a bad seed swallows the Join.
FaultSeedLists ==
  UNION {[1..k -> {Address(n) : n \in Node} \cup {HungAddress}] : k \in 0..MaxSeeds}

Init ==
  /\ peers = [n \in Node |-> <<>>]
  /\ clients = [n \in Node |-> <<>>]
  /\ server = [n \in Node |-> "new"]
  /\ startCall = [n \in Node |-> IdleStart]
  /\ bcast = [n \in Node |-> [k \in Slot |-> IdleBcast]]
  /\ reply = NoReply
  /\ joined = [n \in Node |-> {}]
  /\ calls = 0

\* ---- start() --------------------------------------------------------------------
\* start(bootstrapPeers): addService, then await bindAsync.
Start(n, sd) ==
  /\ startCall[n].pc = "idle"
  /\ calls + Len(sd) <= MaxCalls
  /\ startCall' = [startCall EXCEPT ![n] = [IdleStart EXCEPT !.pc = "binding", !.seeds = sd]]
  /\ calls' = calls + Len(sd)
  /\ reply' = NoReply
  /\ UNCHANGED <<peers, clients, server, bcast, joined>>

\* The `for (const addr of bootstrapPeers)` loop: issue the Join to the next seed,
\* or resolve start() when the list is exhausted.
NextSeed(sc) ==
  IF sc.idx < Len(sc.seeds)
    THEN [sc EXCEPT !.pc = "joinSent", !.idx = sc.idx + 1, !.res = <<>>]
    ELSE [sc EXCEPT !.pc = "resolved", !.res = <<>>]

\* Mutant: no try/catch, the rejection of joinPeer rejects start().
OnSeedFail_Rethrow(sc) == [sc EXCEPT !.pc = "rejected", !.failed = @ + 1]

\* Mutant: one try/catch around the whole loop, the first failure ends it.
OnSeedFail_Abort(sc) == [sc EXCEPT !.pc = "resolved", !.failed = @ + 1]

\* start(): catch { /* ignore */ } around joinPeer, then the next seed
OnSeedFail(sc) == NextSeed([sc EXCEPT !.failed = @ + 1])

\* Mutant: the callback resolves whatever err is, start() goes on to the seeds.
OnBindErr_Ignored(sc) == NextSeed([sc EXCEPT !.bindErr = TRUE])

\* bindAsync callback: err ? reject(err) : resolve(); the await throws
OnBindErr(sc) == [sc EXCEPT !.pc = "rejected", !.bindErr = TRUE]

\* bindAsync fails: reject(err), start() rejects before server.start().
BindFail(n) ==
  /\ startCall[n].pc = "binding"
  /\ startCall' = [startCall EXCEPT ![n] = OnBindErr(@)]
  /\ reply' = NoReply
  /\ UNCHANGED <<peers, clients, server, bcast, joined, calls>>

\* Mutant: server.start() moved after the bootstrap loop, not reached here.
ServerStart_Late(s) == s

\* this.server.start(), right after the awaited bindAsync
ServerStart(s) == "started"

\* bindAsync succeeds: server.start(), then the bootstrap loop begins.
BindOk(n) ==
  /\ startCall[n].pc = "binding"
  /\ server[n] = "new"
  /\ server' = [server EXCEPT ![n] = ServerStart(@)]
  /\ startCall' = [startCall EXCEPT ![n] = NextSeed(@)]
  /\ reply' = NoReply
  /\ UNCHANGED <<peers, clients, bcast, joined, calls>>

\* The Join handler of node n, run for request { me }.
JoinHandler(n, me) ==
  /\ peers' = [peers EXCEPT ![n] = JoinPeers(@, me)]
  /\ clients' = [clients EXCEPT ![n] = JoinClients(n, @, me)]
  /\ reply' = JoinReply(n, me, JoinResponse(n, peers'[n]))
  /\ joined' = [joined EXCEPT ![n] = @ \cup {me.id}]

\* The seed's Join handler runs for the bootstrap Join of node n.
SeedJoinHandle(n) ==
  /\ startCall[n].pc = "joinSent"
  /\ \E m \in Listener(startCall[n].seeds[startCall[n].idx]) :
       /\ JoinHandler(m, Self(n))
       /\ startCall' = [startCall EXCEPT ![n].pc = "joinReplied",
                                         ![n].res = reply'.peers]
  /\ UNCHANGED <<server, bcast, calls>>

\* Nothing serves the seed address: unary rejects, start() catches and goes on.
SeedJoinFail(n) ==
  /\ startCall[n].pc = "joinSent"
  /\ Refused(startCall[n].seeds[startCall[n].idx])
  /\ startCall' = [startCall EXCEPT ![n] = OnSeedFail(@)]
  /\ reply' = NoReply
  /\ UNCHANGED <<peers, clients, server, bcast, joined, calls>>

\* joinPeer resumes with the response and merges it.
SeedJoinMerge(n) ==
  /\ startCall[n].pc = "joinReplied"
  /\ peers' = [peers EXCEPT ![n] = MergePeers(@, startCall[n].res)]
  /\ clients' = [clients EXCEPT ![n] = MergeClients(n, @, startCall[n].res)]
  /\ startCall' = [startCall EXCEPT ![n] = NextSeed(@)]
  /\ reply' = NoReply
  /\ UNCHANGED <<server, bcast, joined, calls>>

\* ---- stop() ---------------------------------------------------------------------
\* tryShutdown: stop accepting calls, wait for the calls in flight.
Stop(n) ==
  /\ calls < MaxCalls
  /\ server[n] = "started"
  /\ server' = [server EXCEPT ![n] = "draining"]
  /\ reply' = NoReply
  /\ calls' = calls + 1
  /\ UNCHANGED <<peers, clients, startCall, bcast, joined>>

\* Mutant: forceShutdown, the calls in flight are not waited for.
Drained_Force(b) == TRUE

\* tryShutdown calls back once no call is in flight on the server.
Drained(b) == \A k \in Slot : b[k].pc # "await"

\* tryShutdown's callback: no call is in flight any more.
StopDone(n) ==
  /\ server[n] = "draining"
  /\ Drained(bcast[n])
  /\ server' = [server EXCEPT ![n] = "shutdown"]
  /\ reply' = NoReply
  /\ UNCHANGED <<peers, clients, startCall, bcast, joined, calls>>

\* ---- inbound calls ------------------------------------------------------------
\* Join called by any client with request { me }, well-formed or not.
Join(n, me) ==
  /\ calls < MaxCalls
  /\ Accepts(n)
  /\ JoinHandler(n, me)
  /\ calls' = calls + 1
  /\ UNCHANGED <<server, startCall, bcast>>

\* Ping handler.
Ping(n, from) ==
  /\ calls < MaxCalls
  /\ Accepts(n)
  /\ reply' = PingReply(n, from, PingAck(n, from))
  /\ calls' = calls + 1
  /\ UNCHANGED <<peers, clients, server, startCall, bcast, joined>>

\* The Broadcast handler from position pos of the iterator on: either the Ping
\* to the next peer is issued and awaited, or the loop is over and cb replies.
Advance(n, b) ==
  LET i == NextTarget(clients[n], b.from, b.pos)
  IN IF i = 0
       THEN [b EXCEPT !.pc = "replied", !.pos = Len(clients[n])]
       ELSE [b EXCEPT !.pc = "await", !.pos = i,
                      !.pinged = @ \cup {clients[n][i].key},
                      !.sent = @ \cup {PingRequest(n, b.from)}]

\* Broadcast: await unary(...) resolved: delivered++
PingResolved(b) == [b EXCEPT !.delivered = @ + 1]

\* Mutant: delivered++ placed after the try/catch, a failed Ping counts too.
PingRejected_Counted(b) == [b EXCEPT !.delivered = @ + 1]

\* Broadcast: await unary(...) rejected: catch { }, nothing is counted
PingRejected(b) == b

\* The handler of call k is suspended at b, or has replied and is gone.
Resume(n, k, b) ==
  IF b.pc = "replied"
    THEN /\ bcast' = [bcast EXCEPT ![n][k] = IdleBcast]
         /\ reply' = BroadcastReply(n, b)
    ELSE /\ bcast' = [bcast EXCEPT ![n][k] = b]
         /\ reply' = NoReply

\* The calls of node n that are not in use.
FreeSlots(n) == {k \in Slot : bcast[n][k].pc = "idle"}

\* Broadcast handler up to its first await (or to its reply).  Every call has
\* its own iterator and its own delivered counter; a node handles up to
\* MaxInFlight of them at the same time.
Broadcast(n, from) ==
  /\ calls < MaxCalls
  /\ Accepts(n)
  /\ FreeSlots(n) # {}
  /\ LET k == CHOOSE i \in FreeSlots(n) : \A j \in FreeSlots(n) : i <= j
     IN Resume(n, k, Advance(n, [IdleBcast EXCEPT !.from = from,
                                                  !.size0 = Len(clients[n])]))
  /\ calls' = calls + 1
  /\ UNCHANGED <<peers, clients, server, startCall, joined>>

\* The awaited Ping is answered by the Ping handler of the node listening at
\* the client's target (the handler changes nothing there): delivered++.
PingOk(n, k) ==
  /\ bcast[n][k].pc = "await"
  /\ Serving(clients[n][bcast[n][k].pos].value.target)
  /\ Resume(n, k, Advance(n, [PingResolved(bcast[n][k]) EXCEPT
                                !.acked = @ \cup {clients[n][bcast[n][k].pos].key}]))
  /\ UNCHANGED <<peers, clients, server, startCall, joined, calls>>

\* The awaited Ping rejects (nothing serves the peer's address): catch, go on.
PingErr(n, k) ==
  /\ bcast[n][k].pc = "await"
  /\ Refused(clients[n][bcast[n][k].pos].value.target)
  /\ Resume(n, k, Advance(n, PingRejected(bcast[n][k])))
  /\ UNCHANGED <<peers, clients, server, startCall, joined, calls>>

Next ==
  \/ \E n \in Node, sd \in SeedLists : Start(n, sd)
  \/ \E n \in Node : BindFail(n)
  \/ \E n \in Node : BindOk(n)
  \/ \E n \in Node : SeedJoinHandle(n)
  \/ \E n \in Node : SeedJoinFail(n)
  \/ \E n \in Node : SeedJoinMerge(n)
  \/ \E n \in Node : Stop(n)
  \/ \E n \in Node : StopDone(n)
  \/ \E n \in Node, me \in CallerInfos : Join(n, me)
  \/ \E n \in Node, from \in Node : Ping(n, from)
  \/ \E n \in Node, from \in Node : Broadcast(n, from)
  \/ \E n \in Node, k \in Slot : PingOk(n, k)
  \/ \E n \in Node, k \in Slot : PingErr(n, k)

Spec == Init /\ [][Next]_vars

\* The same nodes in an environment with faults: requests may be malformed,
\* and a wrong address swallows calls instead of refusing them.
NextFaults ==
  \/ \E n \in Node, sd \in FaultSeedLists : Start(n, sd)
  \/ \E n \in Node : BindFail(n)
  \/ \E n \in Node : BindOk(n)
  \/ \E n \in Node : SeedJoinHandle(n)
  \/ \E n \in Node : SeedJoinFail(n)
  \/ \E n \in Node : SeedJoinMerge(n)
  \/ \E n \in Node : Stop(n)
  \/ \E n \in Node : StopDone(n)
  \/ \E n \in Node, me \in FaultInfos : Join(n, me)
  \/ \E n \in Node, from \in Node : Ping(n, from)
  \/ \E n \in Node, from \in Node : Broadcast(n, from)
  \/ \E n \in Node, k \in Slot : PingOk(n, k)
  \/ \E n \in Node, k \in Slot : PingErr(n, k)

SpecFaults == Init /\ [][NextFaults]_vars

TypeOK ==
  /\ calls \in 0..MaxCalls
  /\ \A n \in Node : server[n] \in {"new", "started", "draining", "shutdown"}

\* No node was given a seed list: every call so far came from outside.
NoBootstrap == \A n \in Node : startCall[n].seeds = <<>>

\* ---- C1 -------------------------------------------------------------------------
\* C1: in every reachable state, every id that is a key of a node's Roster
\* (peers) is also a key of its Peer Client Pool (clients).
C1_RosterInPool ==
  \A n \in Node : MapKeys(peers[n]) \subseteq MapKeys(clients[n])

\* ---- C2 -------------------------------------------------------------------------
\* C2: a node's own id is never a key of its own Roster.
C2_SelfNotInRoster ==
  \A n \in Node : n \notin MapKeys(peers[n])

\* ---- C3 -------------------------------------------------------------------------
\* C3: Join is idempotent per caller id: when node A has just handled Join(B),
\* for the second time as for the first, A's Roster holds exactly one entry keyed
\* by B.id and its address is the address of this most recent call.
C3_JoinIdempotent ==
  reply.op = "Join" =>
    LET p == peers[reply.by]
        hits == {i \in DOMAIN p : p[i].key = reply.req.id}
    IN /\ Cardinality(hits) = 1
       /\ \A i \in hits : p[i].value.address = reply.req.address

\* Witness: exactly two calls were made, both Joins of the same caller on the
\* same node, the second with another address than the first (the client still
\* targets the first address, the Roster entry shows the second).
C3_Witness ==
  /\ NoBootstrap
  /\ calls = 2
  /\ reply.op = "Join"
  /\ Len(peers[reply.by]) = 1
  /\ Len(clients[reply.by]) = 1
  /\ clients[reply.by][1].key = reply.req.id
  /\ clients[reply.by][1].value.target # reply.req.address
  /\ peers[reply.by][1].value.address = reply.req.address

\* ---- C4 -------------------------------------------------------------------------
\* C4: Join symmetry convergence: once distinct nodes A and B have each handled
\* the other's Join, A's Roster contains B.id, B's Roster contains A.id, and each
\* node's Peer Client Pool holds a handle keyed by the other's id.
C4_JoinSymmetry ==
  \A a \in Node : \A b \in Node \ {a} :
    (b \in joined[a] /\ a \in joined[b]) =>
      /\ b \in MapKeys(peers[a])
      /\ a \in MapKeys(peers[b])
      /\ b \in MapKeys(clients[a])
      /\ a \in MapKeys(clients[b])

\* Witness: A handled Join(B) and B then handled Join(A), by two outside calls.
C4_Witness ==
  /\ NoBootstrap
  /\ calls = 2
  /\ reply.op = "Join"
  /\ reply.req.id # reply.by
  /\ reply.by \in joined[reply.req.id]
  /\ reply.req.id \in joined[reply.by]

\* ---- C5 -------------------------------------------------------------------------
\* C5: the Join response is the responder's full Roster as it stands after the
\* caller has been inserted, in Roster order, followed by the responder's own
\* identity {id, address} as the last element.
C5_JoinResponse ==
  reply.op = "Join" =>
    LET p == peers[reply.by]
        r == reply.peers
    IN /\ Len(r) = Len(p) + 1
       /\ \A i \in DOMAIN p : r[i] = p[i].value
       /\ r[Len(r)] = [id |-> reply.by, address |-> Address(reply.by)]
       /\ \E i \in DOMAIN p : r[i] = reply.req

\* Witness: a Join answered by a node whose Roster already held another peer.
C5_Witness ==
  /\ reply.op = "Join"
  /\ Len(reply.peers) = 3
  /\ reply.peers[2] = reply.req
  /\ reply.peers[1].id # reply.by

\* ---- C6 -------------------------------------------------------------------------
\* C6 as stated: on a node with an empty Roster, the first Join call returns a
\* peers sequence of exactly one element, the node's own identity.
C6_FirstJoinOnlySelf ==
  [][\A n \in Node :
       (peers[n] = <<>> /\ reply'.op = "Join" /\ reply'.by = n) =>
         reply'.peers = <<Self(n)>>]_vars

\* C6 amended: on a node with an empty Roster, the first Join call returns a
\* peers sequence of exactly two elements: the caller's identity as given in the
\* request, then the node's own identity.
C6_FirstJoinCallerThenSelf ==
  [][\A n \in Node :
       (peers[n] = <<>> /\ reply'.op = "Join" /\ reply'.by = n) =>
         reply'.peers = <<reply'.req, [id |-> n, address |-> Address(n)]>>]_vars

\* Witness: the very first call in the system is a Join, just answered.
C6_Witness ==
  /\ NoBootstrap
  /\ calls = 1
  /\ reply.op = "Join"
  /\ joined[reply.by] = {reply.req.id}
  /\ Len(reply.peers) = 2

\* ---- C7 -------------------------------------------------------------------------
\* C7: Broadcast count bound: with k the size of the Peer Client Pool when the
\* request arrived, the reply has delivered <= k, and delivered = k when all k
\* of those peers answered their Ping.
C7_BroadcastBound ==
  reply.op = "Broadcast" =>
    LET c == clients[reply.by]
        k == reply.call.size0
    IN /\ reply.delivered <= k
       /\ (\A i \in 1..k : c[i].key \in reply.call.acked) => reply.delivered = k

C9_BroadcastNeverFails ==
  reply.op = "Broadcast" =>
    /\ reply.status = "OK"
    /\ reply.call.acked \subseteq reply.call.pinged
    /\ reply.delivered = Cardinality(reply.call.acked)
    /\ (Cardinality(reply.call.pinged) = 2 /\ Cardinality(reply.call.acked) = 1)
         => reply.delivered = 1

\* Witness: a pool of one live peer and one peer at a dead address; both were
\* pinged and the Broadcast replied 1.
C9_Witness ==
  /\ reply.op = "Broadcast"
  /\ Len(clients[reply.by]) = 2
  /\ Cardinality(reply.call.pinged) = 2
  /\ \E i \in DOMAIN clients[reply.by] :
       /\ clients[reply.by][i].value.target = DeadAddress
       /\ clients[reply.by][i].key \notin reply.call.acked
  /\ reply.delivered = 1

\* ---- C10 ------------------------------------------------------------------------
\* C10: bootstrap failure is non-fatal: when every bootstrap Join of a start()
\* with a non-empty seed list has failed, start() has resolved (not rejected),
\* the server was started, and the Roster and the pool hold nothing unless an
\* inbound Join was handled meanwhile.
C10_BootstrapFailureNonFatal ==
  \A n \in Node :
    LET sc == startCall[n]
    IN (sc.seeds # <<>> /\ sc.failed = Len(sc.seeds)) =>
         /\ sc.pc = "resolved"
         /\ server[n] \in {"started", "draining", "shutdown"}
         /\ joined[n] = {} => (peers[n] = <<>> /\ clients[n] = <<>>)

\* Witness: start() with the single seed unreachable has resolved and the node
\* is running with an empty Roster.
C10_Witness ==
  \E n \in Node :
    /\ startCall[n].seeds = <<DeadAddress>>
    /\ startCall[n].failed = 1
    /\ startCall[n].pc = "resolved"
    /\ server[n] = "started"
    /\ peers[n] = <<>>

\* ---- C11 ------------------------------------------------------------------------
\* C11: a listener bind failure is fatal to startup: start() has rejected, the
\* server was never started (the node does not reach Running) and no bootstrap
\* Join was attempted.
C11_BindFailureFatal ==
  \A n \in Node :
    startCall[n].bindErr =>
      /\ startCall[n].pc = "rejected"
      /\ server[n] = "new"
      /\ startCall[n].idx = 0
      /\ startCall[n].failed = 0

\* Witness: bindAsync failed for a start() that was given a seed.
C11_Witness ==
  \E n \in Node :
    /\ startCall[n].bindErr
    /\ startCall[n].seeds # <<>>
    /\ startCall[n].pc = "rejected"

\* ---- C12 ------------------------------------------------------------------------
\* C12: a malformed Join request (me.id or me.address missing) is answered with
\* an InvalidArgument error and leaves Roster and Peer Client Pool without any
\* entry made from it.
C12_MalformedJoinRejected ==
  (reply.op = "Join" /\ reply.req \in MalformedInfos) =>
    /\ reply.status = "INVALID_ARGUMENT"
    /\ \A i \in DOMAIN peers[reply.by] : peers[reply.by][i].value # reply.req
    /\ \A i \in DOMAIN clients[reply.by] :
         clients[reply.by][i].key = reply.req.id =>
           clients[reply.by][i].value.target # reply.req.address

\* ---- C13 ------------------------------------------------------------------------
\* C13: every outbound call is bounded: whenever a Broadcast awaits a Ping, or
\* start() awaits a bootstrap Join, a step that ends the wait (an answer, an
\* error or a timeout) is possible, so the Broadcast replies and start()
\* resolves even when the peer never answers.
C13_CallsAreBounded ==
  \A n \in Node :
    /\ \A k \in Slot :
         bcast[n][k].pc = "await" => ENABLED (PingOk(n, k) \/ PingErr(n, k))
    /\ startCall[n].pc = "joinSent" => ENABLED (SeedJoinHandle(n) \/ SeedJoinFail(n))

\* ---- C14 ------------------------------------------------------------------------
\* The lifecycle state of the spec, read off start()'s progress and the server.
Lifecycle(n) ==
  CASE server[n] = "shutdown" -> "Stopped"
    [] server[n] = "draining" -> "Stopping"
    [] server[n] = "started" -> "Running"
    [] server[n] = "new" /\ startCall[n].pc = "idle" -> "Created"
    [] OTHER -> "Starting"

\* Created -> Starting -> Running -> Stopping -> Stopped
Rank(l) ==
  CASE l = "Created" -> 0
    [] l = "Starting" -> 1
    [] l = "Running" -> 2
    [] l = "Stopping" -> 3
    [] l = "Stopped" -> 4

\* C14: the lifecycle only moves forward, one state at a time; the node is
\* Running from the bind on, before any bootstrap Join is sent and whatever its
\* outcome, and a bootstrap failure does not move it out of Running.
C14_LifecycleForward ==
  [][\A n \in Node :
       /\ Rank(Lifecycle(n)') >= Rank(Lifecycle(n))
       /\ Rank(Lifecycle(n)') <= Rank(Lifecycle(n)) + 1
       /\ startCall'[n].pc \in {"joinSent", "joinReplied", "resolved"} =>
            server'[n] # "new"
       /\ (Lifecycle(n) = "Running" /\ startCall'[n].failed > startCall[n].failed) =>
            Lifecycle(n)' = "Running"]_vars

\* Witness: a Running node whose first bootstrap Join failed and whose second
\* is still pending.
C14_Witness ==
  \E n \in Node :
    /\ Lifecycle(n) = "Running"
    /\ startCall[n].failed = 1
    /\ startCall[n].pc = "joinSent"

\* ---- C15 ------------------------------------------------------------------------
\* C15: graceful stop: once stop is requested the node answers no new inbound
\* call; a Broadcast in flight at that moment is kept, is answered, and only
\* then does stop resolve (the server is shut down).
C15_GracefulStop ==
  [][\A n \in Node :
       /\ server'[n] = "shutdown" => \A k \in Slot : bcast'[n][k].pc = "idle"
       /\ (server[n] \in {"draining", "shutdown"} /\ reply'.by = n) =>
            (reply'.op = "Broadcast" /\ \E k \in Slot : bcast[n][k].pc = "await")
       /\ \A k \in Slot :
            (server[n] = "draining" /\ bcast[n][k].pc = "await") =>
              /\ server'[n] = "draining"
              /\ bcast'[n][k].pc = "await" \/ (reply'.op = "Broadcast" /\ reply'.by = n)]_vars

\* Witness: a Broadcast in flight when stop was requested has just replied,
\* the server still draining.
C15_Witness ==
  /\ reply.op = "Broadcast"
  /\ server[reply.by] = "draining"
  /\ Cardinality(reply.call.pinged) >= 1

\* ---- C16 ------------------------------------------------------------------------
\* C16: Roster and Peer Client Pool grow monotonically: no step removes a key
\* from either map or makes either shorter.
C16_Monotonic ==
  [][\A n \in Node :
       /\ MapKeys(peers[n]) \subseteq MapKeys(peers'[n])
       /\ MapKeys(clients[n]) \subseteq MapKeys(clients'[n])
       /\ Len(peers[n]) <= Len(peers'[n])
       /\ Len(clients[n]) <= Len(clients'[n])]_vars

\* Witness: a Broadcast found every peer of a pool of two dead, and both are
\* still in the Roster and in the pool.
C16_Witness ==
  /\ reply.op = "Broadcast"
  /\ reply.delivered = 0
  /\ Cardinality(reply.call.pinged) = 2
  /\ reply.call.pinged \subseteq MapKeys(clients[reply.by])
  /\ reply.call.pinged \subseteq MapKeys(peers[reply.by])

\* ---- C17 ------------------------------------------------------------------------
\* C17: Ping has no side effects: handling a Ping leaves every Roster and pool
\* as it was, and its ack names the responder's id.
C17_PingNoSideEffects ==
  [][reply'.op = "Ping" =>
       /\ peers' = peers
       /\ clients' = clients
       /\ reply'.status = "OK"
       /\ reply'.ack[2] = reply'.by]_vars

\* Witness: a node with a non-empty Roster answered the Ping of another id.
C17_Witness ==
  /\ reply.op = "Ping"
  /\ reply.req # reply.by
  /\ peers[reply.by] # <<>>
  /\ clients[reply.by] # <<>>

\* ---- C18 ------------------------------------------------------------------------
\* C18: Broadcast fans out over the pool as it was when the request was
\* handled: every peer it pinged was among the entries present at that time.
C18_Snapshot ==
  reply.op = "Broadcast" =>
    reply.call.pinged \subseteq
      {clients[reply.by][i].key : i \in 1..reply.call.size0}

\* ---- C19 ------------------------------------------------------------------------
\* C19: Broadcast contacts its peers in parallel: whenever the handler waits
\* for a Ping reply, the Ping to every non-excluded peer of the pool it started
\* from has been issued.
C19_Parallel ==
  \A n \in Node :
    \A k \in Slot :
      bcast[n][k].pc = "await" =>
        \A i \in 1..bcast[n][k].size0 :
          ~Excluded(clients[n][i].key, bcast[n][k].from) =>
            clients[n][i].key \in bcast[n][k].pinged

\* ---- C20 ------------------------------------------------------------------------
\* C20: bootstrap attempts are independent and best-effort: a failed Join
\* against a seed is not retried, leaves Roster and pool unchanged, never
\* rejects start(), and is followed by the Join against the next seed; start()
\* resolves only after every seed was attempted.
C20_BootstrapIndependent ==
  [][\A n \in Node :
       LET sc == startCall[n]
           sc2 == startCall'[n]
       IN /\ sc2.failed = sc.failed + 1 =>
               /\ peers'[n] = peers[n]
               /\ clients'[n] = clients[n]
               /\ IF sc.idx < Len(sc.seeds)
                    THEN sc2.pc = "joinSent" /\ sc2.idx = sc.idx + 1
                    ELSE sc2.pc = "resolved"
          /\ sc2.pc = "resolved" => sc2.idx = Len(sc2.seeds)]_vars

\* Witness: the first seed was unreachable, the second answered and its
\* response was merged.
C20_Witness ==
  \E n \in Node : \E m \in Node \ {n} :
    /\ startCall[n].seeds = <<DeadAddress, Address(m)>>
    /\ startCall[n].failed = 1
    /\ startCall[n].pc = "resolved"
    /\ m \in MapKeys(peers[n])
    /\ m \in MapKeys(clients[n])

\* ---- C21 ------------------------------------------------------------------------
\* C21: when joinPeer merges the response of a seed, the joining node's Roster
\* afterwards contains every peer of the response and its Peer Client Pool
\* contains a handle for every one of them that its Roster did not know before.
C21_BootstrapMerge ==
  [][\A n \in Node :
       (startCall[n].pc = "joinReplied" /\ startCall'[n].pc # "joinReplied") =>
         \A i \in DOMAIN startCall[n].res :
           LET p == startCall[n].res[i]
           IN /\ p.id \in MapKeys(peers'[n])
              /\ p.id \notin MapKeys(peers[n]) => p.id \in MapKeys(clients'[n])]_vars

\* ---- C22 ------------------------------------------------------------------------
\* C22: Join calls from distinct callers lose and corrupt nothing: every id
\* whose Join a node has handled is a key of its Roster, no key occurs twice,
\* and every entry is filed under the id it carries.
C22_JoinsNotLost ==
  \A n \in Node :
    /\ joined[n] \subseteq MapKeys(peers[n])
    /\ Cardinality(MapKeys(peers[n])) = Len(peers[n])
    /\ \A i \in DOMAIN peers[n] : peers[n][i].value.id = peers[n][i].key

\* Witness: a node has just answered a Join and has by now handled the Joins
\* of two other nodes.
C22_Witness ==
  /\ reply.op = "Join"
  /\ Cardinality(joined[reply.by] \ {reply.by}) = 2

\* ---- C23 ------------------------------------------------------------------------
\* C23: inbound calls are not serialized behind a call in flight: while a
\* Broadcast of a node is suspended at an awaited Ping, the node still takes
\* and answers any Join, Ping and Broadcast, and the suspended Broadcast can
\* always go on.
C23_NotSerialized ==
  \A n \in Node :
    (server[n] = "started" /\ \E k \in Slot : bcast[n][k].pc = "await") =>
      /\ calls < MaxCalls =>
           /\ \A me \in CallerInfos : ENABLED Join(n, me)
           /\ \A from \in Node : ENABLED Ping(n, from)
           /\ FreeSlots(n) # {} => \A from \in Node : ENABLED Broadcast(n, from)
      /\ \A k \in Slot :
           bcast[n][k].pc = "await" => ENABLED (PingOk(n, k) \/ PingErr(n, k))

\* Witness: a second Broadcast was handled up to its own await while the
\* first one of the same node was still suspended.
C23_Witness ==
  \E n \in Node :
    /\ server[n] = "started"
    /\ bcast[n][1].pc = "await"
    /\ bcast[n][2].pc = "await"

\* ---- C24 ------------------------------------------------------------------------
\* C24: one client handle per peer id, reused: no step replaces or moves an
\* entry of a Peer Client Pool, and no id has two entries.
C24_OneHandlePerPeer ==
  [][\A n \in Node :
       /\ \A i \in DOMAIN clients[n] :
            i \in DOMAIN clients'[n] /\ clients'[n][i] = clients[n][i]
       /\ Cardinality(MapKeys(clients'[n])) = Len(clients'[n])]_vars

\* Witness: three Joins on one node, the third from the caller of the first,
\* whose handle is still the first one made.
C24_Witness ==
  /\ reply.op = "Join"
  /\ calls = 3
  /\ Len(clients[reply.by]) = 2
  /\ clients[reply.by][1].key = reply.req.id
  /\ clients[reply.by][1].value.stamp = 1
  /\ clients[reply.by][2].value.stamp = 2

\* ---- C25 ------------------------------------------------------------------------
\* C25: Broadcast is a liveness fan-out only: every Ping request it sends is
\* { from: <the coordinator's id> } and nothing else, and no step of a
\* Broadcast handler changes the Roster or the pool of any node.
C25_FanOutOnly ==
  [][/\ \A n \in Node :
          (bcast'[n] # bcast[n] \/ (reply'.op = "Broadcast" /\ reply'.by = n)) =>
            (peers' = peers /\ clients' = clients)
     /\ \A n \in Node : \A k \in Slot : bcast'[n][k].sent \subseteq {[from |-> n]}
     /\ reply'.op = "Broadcast" =>
          reply'.call.sent \subseteq {[from |-> reply'.by]}]_vars

\* Witness: a Broadcast on behalf of another id than the coordinator's has
\* replied after a peer answered its Ping.
C25_Witness ==
  /\ reply.op = "Broadcast"
  /\ reply.req # reply.by
  /\ reply.call.sent # {}
  /\ reply.call.acked # {}

\* ---- C26 ------------------------------------------------------------------------
\* C26: once stop has completed the node's state is frozen: no step changes
\* the Roster or the Peer Client Pool of a node whose server is shut down.
C26_FrozenAfterStop ==
  [][\A n \in Node :
       server[n] = "shutdown" =>
         (peers'[n] = peers[n] /\ clients'[n] = clients[n])]_vars

\* ---- C27 ------------------------------------------------------------------------
\* C27: every key of a Peer Client Pool is a key of the same node's Roster.
C27_PoolInRoster ==
  \A n \in Node : MapKeys(clients[n]) \subseteq MapKeys(peers[n])

\* Witness: a node that handled no Join has two handles, both opened by its
\* bootstrap merges.
C27_Witness ==
  \E n \in Node :
    /\ joined[n] = {}
    /\ startCall[n].pc = "resolved"
    /\ Len(clients[n]) = 2

\* ---- C28 ------------------------------------------------------------------------
\* C28 (as stated): for every id in a Peer Client Pool, the handle's target is
\* the address of that id's Roster entry.
C28_HandleFollowsRoster ==
  \A n \in Node :
    \A i \in DOMAIN clients[n] :
      \A j \in DOMAIN peers[n] :
        peers[n][j].key = clients[n][i].key =>
          clients[n][i].value.target = peers[n][j].value.address

\* C28 (amended): a Join from an id that already has a handle leaves that
\* handle's target as it was and sets the id's Roster address to the address of
\* the request; a Join from an id without a handle opens one that targets the
\* address of the request.
C28_HandleKeepsFirstAddress ==
  [][reply'.op = "Join" =>
       LET n == reply'.by
           me == reply'.req
       IN /\ \A j \in DOMAIN peers'[n] :
               peers'[n][j].key = me.id => peers'[n][j].value.address = me.address
          /\ \A i \in DOMAIN clients'[n] :
               clients'[n][i].key = me.id =>
                 clients'[n][i].value.target =
                   IF MapHas(clients[n], me.id)
                     THEN clients[n][MapIndex(clients[n], me.id)].value.target
                     ELSE me.address]_vars

\* Witness: the second peer of a pool has re-joined from an address nothing
\* listens on; its handle still targets its first address.
C28_Witness ==
  /\ reply.op = "Join"
  /\ reply.req.address = DeadAddress
  /\ Len(clients[reply.by]) = 2
  /\ clients[reply.by][2].key = reply.req.id
  /\ clients[reply.by][2].value.target = Address(reply.req.id)

\* ---- C29 ------------------------------------------------------------------------
\* C29: two nodes that each await the other's answer to a fan-out Ping do not
\* deadlock: each of the two Pings can be answered while the answering node's
\* own Broadcast is suspended.
C29_NoMutualDeadlock ==
  \A a \in Node : \A b \in Node \ {a} : \A k \in Slot : \A l \in Slot :
    ( /\ server[a] = "started" /\ server[b] = "started"
      /\ bcast[a][k].pc = "await"
      /\ clients[a][bcast[a][k].pos].value.target = Address(b)
      /\ bcast[b][l].pc = "await"
      /\ clients[b][bcast[b][l].pos].value.target = Address(a) ) =>
    (ENABLED PingOk(a, k) /\ ENABLED PingOk(b, l))

\* Witness: two running nodes, each suspended at the Ping to the other.
C29_Witness ==
  \E a \in Node : \E b \in Node \ {a} :
    /\ server[a] = "started" /\ server[b] = "started"
    /\ bcast[a][1].pc = "await"
    /\ clients[a][bcast[a][1].pos].key = b
    /\ clients[a][bcast[a][1].pos].value.target = Address(b)
    /\ bcast[b][1].pc = "await"
    /\ clients[b][bcast[b][1].pos].key = a
    /\ clients[b][bcast[b][1].pos].value.target = Address(a)

\* ---- C30 ------------------------------------------------------------------------
\* C30: a Join response never lists the same peer id twice.
C30_ResponseIdsDistinct ==
  reply.op = "Join" =>
    \A i \in DOMAIN reply.peers : \A j \in DOMAIN reply.peers :
      i # j => reply.peers[i].id # reply.peers[j].id

====
